---- MODULE Spec2Model ----
(***************************************************************************)
(* Model of the DocFX -> MDX documentation pipeline: the Node converter    *)
(* scripts/process-docfx-output.js and the batch shell converters.         *)
(*                                                                         *)
(* Text is a sequence of one-character strings.  Rendered output is a      *)
(* sequence of strings in which every literal of a template is one element *)
(* (a "chunk") and every interpolated value contributes its characters;    *)
(* the real string is the concatenation of the elements.                   *)
(***************************************************************************)
EXTENDS Integers, Sequences, FiniteSets, TLC

VARIABLES
  filename,  \* the target file name handed to convertYamlToMdx
  page,      \* the text convertYamlToMdx returns
  pc,        \* position of the run
  text,      \* the argument of a sanitizer
  once,      \* the sanitizer's result
  twice,     \* the sanitizer's result on its own result
  children,  \* the children (uid list) handed to groupChildren
  data,      \* the parsed YAML document: items and references
  groups,    \* the object groupChildren returns: its keys in insertion order
  prog,      \* the converter that runs
  srcDir,    \* the source directory: "missing", "unreadable" or "ok"
  files,     \* the source files the run iterates over, in order
  idx,       \* the position of the next file
  written,   \* the pages written to the target directory, by source file
  statics,   \* the fixed files (index.md, .gitignore) written to it
  removed,   \* the positions of the source files the run has deleted
  processedCount,
  skippedCount,
  alive,     \* the subshell of the piped while loop is still running
  exitCode,  \* the exit status, -1 while the run goes on
  yamlFile,  \* the source file name handed to processYamlFile
  uids,      \* the uids of the primary items of the batch's documents
  ids        \* the frontmatter ids sanitizeId gives them

sanVars == <<text, once, twice>>
groupVars == <<children, data, groups>>
renderVars == <<filename, page>>
batchVars ==
  <<prog, srcDir, files, idx, written, statics, removed, processedCount,
    skippedCount, alive, exitCode>>
nameVars == <<yamlFile, uids, ids>>
vars ==
  <<filename, page, pc, text, once, twice, children, data, groups, prog,
    srcDir, files, idx, written, statics, removed, processedCount,
    skippedCount, alive, exitCode, yamlFile, uids, ids>>

\* the variables of a function that the run does not call keep these values
GroupIdle ==
  /\ children = <<>>
  /\ data = [references |-> <<>>, items |-> <<>>]
  /\ groups = <<>>

SanIdle ==
  /\ text = <<>>
  /\ once = <<>>
  /\ twice = <<>>

RenderIdle ==
  /\ filename = <<>>
  /\ page = <<>>

BatchIdle ==
  /\ prog = "none"
  /\ srcDir = "ok"
  /\ files = <<>>
  /\ idx = 1
  /\ written = {}
  /\ statics = {}
  /\ removed = {}
  /\ processedCount = 0
  /\ skippedCount = 0
  /\ alive = TRUE
  /\ exitCode = -1

NameIdle ==
  /\ yamlFile = <<>>
  /\ uids = <<>>
  /\ ids = <<>>

(***************************************************************************)
(* Bounds                                                                  *)
(***************************************************************************)
MaxJsxLen == 3
MaxMdxLen == 6
MaxChildren == 3
MaxFiles == 3
MaxParams == 2
MaxStemLen == 4
MaxIdLen == 4

(***************************************************************************)
(* Character helpers                                                       *)
(***************************************************************************)
\* the characters matched by \s that occur in the inputs
Whitespace == {" ", "\n", "\r", "\t"}

\* the characters of an identifier
IdentChars ==
  {"a", "b", "c", "d", "e", "f", "g", "h", "i", "j", "k", "l", "m", "n",
   "o", "p", "q", "r", "s", "t", "u", "v", "w", "x", "y", "z",
   "A", "B", "C", "D", "E", "F", "G", "H", "I", "J", "K", "L", "M", "N",
   "O", "P", "Q", "R", "S", "T", "U", "V", "W", "X", "Y", "Z",
   "0", "1", "2", "3", "4", "5", "6", "7", "8", "9", "_"}

\* the entity texts the sanitizers write
AmpEntity == <<"&", "a", "m", "p", ";">>
QuotEntity == <<"&", "q", "u", "o", "t", ";">>
AposEntity == <<"&", "#", "3", "9", ";">>
LtEntity == <<"&", "l", "t", ";">>
GtEntity == <<"&", "g", "t", ";">>
LBraceEntity == <<"&", "#", "1", "2", "3", ";">>
RBraceEntity == <<"&", "#", "1", "2", "5", ";">>

\* the least element of a non-empty set of positions
Least(S) == CHOOSE i \in S : \A j \in S : i <= j

\* the concatenation of a sequence of strings, by halves
RECURSIVE Concat(_)
Concat(parts) ==
  IF parts = <<>> THEN <<>>
  ELSE IF Len(parts) = 1 THEN parts[1]
  ELSE LET m == Len(parts) \div 2
       IN Concat(SubSeq(parts, 1, m)) \o Concat(SubSeq(parts, m + 1, Len(parts)))

\* String.prototype.replace(/c/g, r) for a one-character pattern c
ReplaceChar(s, c, r) ==
  IF s = <<>> THEN <<>>
  ELSE Concat([i \in 1..Len(s) |-> IF s[i] = c THEN r ELSE <<s[i]>>])

\* position of the first ">" of s at or after position i, 0 when there is none
FirstGt(s, i) ==
  LET at == {j \in i..Len(s) : s[j] = ">"}
  IN IF at = {} THEN 0 ELSE Least(at)

\* the replacement of one match: "&lt;$1&gt;" in sanitizeForMdx (escape),
\* "" in sanitizeForJsx and sanitizeId
AngleReplacement(inner, escape) ==
  IF escape THEN LtEntity \o inner \o GtEntity ELSE <<>>

\* The positions of s where /<([^>]+)>/ can match: a "<" whose first ">"
\* is at least two positions further.
AngleStarts(s) ==
  {i \in 1..Len(s) : s[i] = "<" /\ FirstGt(s, i + 1) > i + 1}

\* String.prototype.replace(/<([^>]+)>/g, ...): leftmost matches, scanned
\* left to right, the scan resuming after each match.
RECURSIVE ReplaceAngle(_, _)
ReplaceAngle(s, escape) ==
  IF s = <<>> \/ AngleStarts(s) = {} THEN s
  ELSE LET i == Least(AngleStarts(s))
           j == FirstGt(s, i + 1)
       IN SubSeq(s, 1, i - 1)
            \o AngleReplacement(SubSeq(s, i + 1, j - 1), escape)
            \o ReplaceAngle(SubSeq(s, j + 1, Len(s)), escape)

\* .replace(/\r\n/g, r)
ReplaceCRLFWith(s, r) ==
  IF s = <<>> THEN <<>>
  ELSE
  Concat([i \in 1..Len(s) |->
            IF s[i] = "\r" /\ i < Len(s) /\ s[i + 1] = "\n" THEN r
            ELSE IF s[i] = "\n" /\ i > 1 /\ s[i - 1] = "\r" THEN <<>>
            ELSE <<s[i]>>])

\* .replace(/\r\n/g, " ")
ReplaceCRLF(s) == ReplaceCRLFWith(s, <<" ">>)

\* .replace(/\s+/g, " "): every maximal run of whitespace becomes one space
CollapseWs(s) ==
  IF s = <<>> THEN <<>>
  ELSE
  Concat([i \in 1..Len(s) |->
            IF s[i] \in Whitespace
            THEN IF i < Len(s) /\ s[i + 1] \in Whitespace THEN <<>> ELSE <<" ">>
            ELSE <<s[i]>>])

\* the positions of s that hold something else than whitespace
Inked(s) == {i \in 1..Len(s) : s[i] \notin Whitespace}

TrimLeft(s) ==
  IF s = <<>> \/ Inked(s) = {} THEN <<>> ELSE SubSeq(s, Least(Inked(s)), Len(s))

TrimRight(s) ==
  IF s = <<>> \/ Inked(s) = {} THEN <<>>
  ELSE SubSeq(s, 1, CHOOSE i \in Inked(s) : \A j \in Inked(s) : j <= i)

\* String.prototype.trim
Trim(s) == TrimRight(TrimLeft(s))

\* the whitespace tail shared by both sanitizers
CleanWhitespace(s) == Trim(CollapseWs(ReplaceChar(ReplaceCRLF(s), "\n", <<" ">>)))

(***************************************************************************)
(* The sanitizers.  An absent (undefined) or empty text is <<>>, which is  *)
(* what "if (!text) return ''" maps both to.                               *)
(***************************************************************************)
\* String.prototype.replace(/<([^>]+)>/, ...) without the g flag: only the
\* first match is replaced
ReplaceAngleFirst(s, escape) ==
  IF AngleStarts(s) = {} THEN s
  ELSE LET i == Least(AngleStarts(s))
           j == FirstGt(s, i + 1)
       IN SubSeq(s, 1, i - 1)
            \o AngleReplacement(SubSeq(s, i + 1, j - 1), escape)
            \o SubSeq(s, j + 1, Len(s))

\* sanitizeForMdx with the first replace missing its g flag
sanitizeForMdxFirstOnly(t) ==
  IF t = <<>> THEN <<>>
  ELSE CleanWhitespace(
         ReplaceChar(
           ReplaceChar(ReplaceAngleFirst(t, TRUE), "{", LBraceEntity),
           "}", RBraceEntity))

sanitizeForMdx(t) ==
  IF t = <<>> THEN <<>>
  ELSE CleanWhitespace(
         ReplaceChar(
           ReplaceChar(ReplaceAngle(t, TRUE), "{", LBraceEntity),
           "}", RBraceEntity))

\* sanitizeForJsx without its replacement of the double quote
sanitizeForJsxKeepQuotes(t) ==
  IF t = <<>> THEN <<>>
  ELSE CleanWhitespace(
         ReplaceChar(
           ReplaceChar(
             ReplaceChar(
               ReplaceChar(
                 ReplaceAngle(ReplaceChar(t, "&", AmpEntity), FALSE),
                 "\\", <<>>),
               "'", AposEntity),
             "{", <<>>),
           "}", <<>>))

sanitizeForJsx(t) ==
  IF t = <<>> THEN <<>>
  ELSE CleanWhitespace(
         ReplaceChar(
           ReplaceChar(
             ReplaceChar(
               ReplaceChar(
                 ReplaceChar(
                   ReplaceAngle(ReplaceChar(t, "&", AmpEntity), FALSE),
                   "\\", <<>>),
                 "\"", QuotEntity),
               "'", AposEntity),
             "{", <<>>),
           "}", <<>>))

(***************************************************************************)
(* groupChildren.  The returned object is a sequence of                    *)
(* [type, members] entries in the insertion order of its keys.  A field    *)
(* that is absent from the YAML is <<>>.                                   *)
(***************************************************************************)
Member == <<"M", "e", "m", "b", "e", "r">>

\* Array.prototype.find((e) => e.uid === uid): position of the first entry
\* with that uid, 0 when there is none
RECURSIVE FindUid(_, _, _)
FindUid(list, uid, i) ==
  IF i > Len(list) THEN 0
  ELSE IF list[i].uid = uid THEN i
  ELSE FindUid(list, uid, i + 1)

\* the lookup with items searched before references
ResolveChildItemsFirst(childRef, d) ==
  LET r == FindUid(d.references, childRef, 1)
      i == FindUid(d.items, childRef, 1)
  IN IF i > 0 THEN [found |-> TRUE, item |-> d.items[i]]
     ELSE IF r > 0 THEN [found |-> TRUE, item |-> d.references[r]]
     ELSE [found |-> FALSE, item |-> [uid |-> childRef]]

\* lines 438-445: references first, then items; found is FALSE for null
ResolveChild(childRef, d) ==
  LET r == FindUid(d.references, childRef, 1)
      i == FindUid(d.items, childRef, 1)
  IN IF r > 0 THEN [found |-> TRUE, item |-> d.references[r]]
     ELSE IF i > 0 THEN [found |-> TRUE, item |-> d.items[i]]
     ELSE [found |-> FALSE, item |-> [uid |-> childRef]]

\* position of the key type in the object, 0 when the key is not set
RECURSIVE KeyIndex(_, _, _)
KeyIndex(g, type, i) ==
  IF i > Len(g) THEN 0
  ELSE IF g[i].type = type THEN i
  ELSE KeyIndex(g, type, i + 1)

\* groups[type].unshift(childItem) in place of push
PushMemberFront(g, type, childItem) ==
  LET k == KeyIndex(g, type, 1)
  IN IF k = 0 THEN Append(g, [type |-> type, members |-> <<childItem>>])
     ELSE [g EXCEPT ![k].members = <<childItem>> \o @]

\* lines 449-452: create the bucket on first use, push the child
PushMember(g, type, childItem) ==
  LET k == KeyIndex(g, type, 1)
  IN IF k = 0 THEN Append(g, [type |-> type, members |-> <<childItem>>])
     ELSE [g EXCEPT ![k].members = Append(@, childItem)]

\* one iteration of children.forEach that groups an unresolved child too
GroupChildKeepMissing(g, childRef, d) ==
  LET c == ResolveChild(childRef, d)
  IN PushMember(g, IF c.found /\ c.item.type # <<>> THEN c.item.type ELSE Member,
                c.item)

\* lines 436-454: one iteration of children.forEach
GroupChild(g, childRef, d) ==
  LET c == ResolveChild(childRef, d)
  IN IF c.found
     THEN PushMember(g, IF c.item.type # <<>> THEN c.item.type ELSE Member, c.item)
     ELSE g

RECURSIVE GroupFrom(_, _, _)
GroupFrom(g, refs, d) ==
  IF refs = <<>> THEN g
  ELSE GroupFrom(GroupChild(g, Head(refs), d), Tail(refs), d)

groupChildren(refs, d) == GroupFrom(<<>>, refs, d)

(***************************************************************************)
(* Literal texts of the converter, as characters                           *)
(***************************************************************************)
TClass == <<"C", "l", "a", "s", "s">>
TStruct == <<"S", "t", "r", "u", "c", "t">>
TEnum == <<"E", "n", "u", "m">>
TMethod == <<"M", "e", "t", "h", "o", "d">>
TProperty == <<"P", "r", "o", "p", "e", "r", "t", "y">>
TNamespace == <<"N", "a", "m", "e", "s", "p", "a", "c", "e">>
TConstructor == <<"C", "o", "n", "s", "t", "r", "u", "c", "t", "o", "r">>
TField == <<"F", "i", "e", "l", "d">>
TEvent == <<"E", "v", "e", "n", "t">>
TInterface == <<"I", "n", "t", "e", "r", "f", "a", "c", "e">>
Unknown == <<"U", "n", "k", "n", "o", "w", "n">>
Object == <<"o", "b", "j", "e", "c", "t">>
\* the word with a capital, which no return type of the inputs is
VoidCapital == <<"V", "o", "i", "d">>
Void == <<"v", "o", "i", "d">>
EventText == <<"e", "v", "e", "n", "t">>
EnumValue == <<"e", "n", "u", "m", " ", "v", "a", "l", "u", "e">>
Undefined == <<"u", "n", "d", "e", "f", "i", "n", "e", "d">>
Param == <<"p", "a", "r", "a", "m">>
DotMd == <<".", "m", "d">>
DotYml == <<".", "y", "m", "l">>
UnknownId == <<"u", "n", "k", "n", "o", "w", "n">>

\* the lines that open and close the fenced csharp block of an example; a
\* TLA+ string cannot hold the backquote, [fence] stands for three of them
FenceOpen == "  [fence]csharp\n"
FenceClose == "  [fence]\n"

\* a || b for texts: an absent or empty a gives b
Or(a, b) == IF a # <<>> THEN a ELSE b

\* the text a template literal or + writes for a value: an absent one is
\* written as "undefined"
Str(a) == IF a # <<>> THEN a ELSE Undefined

\* s has pat at position i
MatchAt(s, pat, i) ==
  /\ i + Len(pat) - 1 <= Len(s)
  /\ SubSeq(s, i, i + Len(pat) - 1) = pat

\* String.prototype.includes
Contains(s, pat) == \E i \in 1..(Len(s) + 1) : MatchAt(s, pat, i)

\* String.prototype.replace(pat, rep) with a string pattern: the first
\* occurrence only
ReplaceFirst(s, pat, rep) ==
  IF ~Contains(s, pat) THEN s
  ELSE LET i == Least({k \in 1..(Len(s) + 1) : MatchAt(s, pat, k)})
       IN SubSeq(s, 1, i - 1) \o rep \o SubSeq(s, i + Len(pat), Len(s))

\* Array.prototype.join
Join(parts, sep) ==
  Concat([i \in 1..Len(parts) |->
            IF i = 1 THEN parts[i] ELSE sep \o parts[i]])

UpperCase ==
  <<"A", "B", "C", "D", "E", "F", "G", "H", "I", "J", "K", "L", "M",
    "N", "O", "P", "Q", "R", "S", "T", "U", "V", "W", "X", "Y", "Z">>
LowerCase ==
  <<"a", "b", "c", "d", "e", "f", "g", "h", "i", "j", "k", "l", "m",
    "n", "o", "p", "q", "r", "s", "t", "u", "v", "w", "x", "y", "z">>

\* String.prototype.toLowerCase on one character
ToLowerChar(c) ==
  IF \E k \in 1..26 : UpperCase[k] = c
  THEN LowerCase[CHOOSE k \in 1..26 : UpperCase[k] = c]
  ELSE c

\* the characters [a-zA-Z0-9._-] that sanitizeId keeps
IdChars == IdentChars \cup {".", "-"}

\* the positions of s that hold something else than a dash
Undashed(s) == {i \in 1..Len(s) : s[i] # "-"}

StripLeadingDashes(s) ==
  IF Undashed(s) = {} THEN <<>> ELSE SubSeq(s, Least(Undashed(s)), Len(s))

StripTrailingDashes(s) ==
  IF Undashed(s) = {} THEN <<>>
  ELSE SubSeq(s, 1, CHOOSE i \in Undashed(s) : \A j \in Undashed(s) : j <= i)

\* .replace(/-+/g, "-")
CollapseDashes(s) ==
  Concat([i \in 1..Len(s) |->
            IF s[i] = "-" /\ i < Len(s) /\ s[i + 1] = "-" THEN <<>>
            ELSE <<s[i]>>])

\* sanitizeId without its toLowerCase
sanitizeIdKeepCase(id) ==
  IF id = <<>> THEN UnknownId
  ELSE LET noGeneric == ReplaceAngle(id, FALSE)
           dashed == [k \in 1..Len(noGeneric) |->
                        IF noGeneric[k] \in IdChars THEN noGeneric[k] ELSE "-"]
       IN CollapseDashes(StripTrailingDashes(StripLeadingDashes(dashed)))

sanitizeId(id) ==
  IF id = <<>> THEN UnknownId
  ELSE LET noGeneric == ReplaceAngle(id, FALSE)
           dashed == [k \in 1..Len(noGeneric) |->
                        IF noGeneric[k] \in IdChars THEN noGeneric[k] ELSE "-"]
           stripped == StripTrailingDashes(StripLeadingDashes(dashed))
           collapsed == CollapseDashes(stripped)
       IN [k \in 1..Len(collapsed) |-> ToLowerChar(collapsed[k])]

sanitizeCodeBlock(code) ==
  IF code = <<>> THEN <<>>
  ELSE Trim(ReplaceChar(ReplaceCRLFWith(code, <<"\n">>), "\t", <<" ", " ", " ", " ">>))

\* ` ${name}="${value}"` when the sanitized value is not empty, else ""
Attribute(name, value) ==
  IF value # <<>> THEN <<" ", name, "=\"">> \o value \o <<"\"">> ELSE <<>>

buildAttribute(name, value) == Attribute(name, sanitizeForJsx(value))

(***************************************************************************)
(* Member renderers                                                        *)
(***************************************************************************)
\* `${param.type || "object"} ${param.id || param.name || "param"}`
ParamString(param) ==
  Or(param.type, Object) \o <<" ">> \o Or(param.id, Or(param.name, Param))

RECURSIVE ParamStrings(_)
ParamStrings(params) ==
  IF params = <<>> THEN <<>>
  ELSE <<ParamString(Head(params))>> \o ParamStrings(Tail(params))

generateMethodSignature(methodItem) ==
  IF ~methodItem.syntax.present THEN sanitizeForJsx(methodItem.name)
  ELSE sanitizeForJsx(
         (IF methodItem.modifiers # <<>>
          THEN Join(methodItem.modifiers, <<" ">>) \o <<" ">> ELSE <<>>)
         \o (IF methodItem.syntax.return.present /\ methodItem.syntax.return.type # <<>>
             THEN methodItem.syntax.return.type \o <<" ">> ELSE <<>>)
         \o Str(methodItem.name)
         \o <<"(">>
         \o (IF methodItem.syntax.parameters # <<>>
             THEN Join(ParamStrings(methodItem.syntax.parameters), <<",", " ">>)
             ELSE <<>>)
         \o <<")">>)

\* lines 285-292: one ApiParameter entry
ParameterEntry(param) ==
  <<"    <ApiParameter">>
    \o Attribute("name", sanitizeForJsx(Or(param.id, param.name)))
    \o Attribute("type", sanitizeForJsx(Or(param.type, Object)))
    \o buildAttribute("description", param.description)
    \o <<" />\n">>

RECURSIVE ParameterEntries(_)
ParameterEntries(params) ==
  IF params = <<>> THEN <<>>
  ELSE ParameterEntry(Head(params)) \o ParameterEntries(Tail(params))

generateMethodComponent(methodItem) ==
  <<"<ApiMethod">>
    \o Attribute("name", sanitizeForJsx(methodItem.name))
    \o Attribute("signature", generateMethodSignature(methodItem))
    \o buildAttribute("description", methodItem.summary)
    \o <<">\n\n">>
    \o (IF methodItem.syntax.present /\ methodItem.syntax.parameters # <<>>
        THEN <<"  <ApiParameters>\n">>
               \o ParameterEntries(methodItem.syntax.parameters)
               \o <<"  </ApiParameters>\n\n">>
        ELSE <<>>)
    \o (IF methodItem.syntax.present /\ methodItem.syntax.return.present
        THEN LET returnType == sanitizeForJsx(Or(methodItem.syntax.return.type, Void))
             IN IF returnType # Void \/ methodItem.syntax.return.description # <<>>
                THEN <<"  <ApiReturns">>
                       \o Attribute("type", returnType)
                       \o buildAttribute("description",
                                         methodItem.syntax.return.description)
                       \o <<" />\n\n">>
                ELSE <<>>
        ELSE <<>>)
    \o (IF methodItem.example # <<>>
        THEN <<"  <ApiExample>\n", FenceOpen, "  ">>
               \o sanitizeCodeBlock(methodItem.example)
               \o <<"\n", FenceClose, "  </ApiExample>\n\n">>
        ELSE <<>>)
    \o <<"</ApiMethod>\n\n">>

\* the type resolved with the item's own type taken first
PropertyTypeItemFirst(propertyItem) ==
  Or(propertyItem.type,
     Or(IF propertyItem.syntax.present /\ propertyItem.syntax.return.present
        THEN propertyItem.syntax.return.type ELSE <<>>,
        Object))

\* the type a property tag shows: syntax.return.type || type || "object"
PropertyType(propertyItem) ==
  Or(IF propertyItem.syntax.present /\ propertyItem.syntax.return.present
     THEN propertyItem.syntax.return.type ELSE <<>>,
     Or(propertyItem.type, Object))

generatePropertyComponent(propertyItem) ==
  <<"<ApiProperty">>
    \o Attribute("name", sanitizeForJsx(propertyItem.name))
    \o Attribute("type", sanitizeForJsx(PropertyType(propertyItem)))
    \o buildAttribute("description", propertyItem.summary)
    \o <<" />\n\n">>

generateEventComponent(eventItem) ==
  <<"<ApiProperty">>
    \o Attribute("name", sanitizeForJsx(eventItem.name))
    \o Attribute("type", sanitizeForJsx(Or(eventItem.type, EventText)))
    \o buildAttribute("description", eventItem.summary)
    \o <<" />\n\n">>

\* the page body that leaves the type line out
generateGenericContentNoType(item) ==
  <<"# ">> \o sanitizeForMdx(Or(item.name, Unknown)) \o <<"\n\n">>
    \o (IF sanitizeForMdx(item.summary) # <<>>
        THEN sanitizeForMdx(item.summary) \o <<"\n\n">> ELSE <<>>)

generateGenericContent(item) ==
  <<"# ">> \o sanitizeForMdx(Or(item.name, Unknown)) \o <<"\n\n">>
    \o <<"**Type:** ">> \o sanitizeForMdx(Or(item.type, Unknown)) \o <<"\n\n">>
    \o (IF sanitizeForMdx(item.summary) # <<>>
        THEN sanitizeForMdx(item.summary) \o <<"\n\n">> ELSE <<>>)

generateGenericMemberComponent(member) ==
  <<"### ">> \o sanitizeForMdx(Or(member.name, Unknown)) \o <<"\n\n">>
    \o (IF sanitizeForMdx(member.summary) # <<>>
        THEN sanitizeForMdx(member.summary) \o <<"\n\n">> ELSE <<>>)

(***************************************************************************)
(* Page renderers                                                          *)
(***************************************************************************)
\* the member renderer a section uses
MemberComponent(member, how) ==
  CASE how = "method" -> generateMethodComponent(member)
    [] how = "property" -> generatePropertyComponent(member)
    [] how = "event" -> generateEventComponent(member)
    [] OTHER -> generateGenericMemberComponent(member)

RECURSIVE RenderMembers(_, _)
RenderMembers(members, how) ==
  IF members = <<>> THEN <<>>
  ELSE MemberComponent(Head(members), how) \o RenderMembers(Tail(members), how)

\* groupedChildren[type], <<>> when the key is not set
Bucket(g, type) ==
  IF KeyIndex(g, type, 1) = 0 THEN <<>> ELSE g[KeyIndex(g, type, 1)].members

\* the block without its test: the heading is written for an empty group too
SectionAlways(g, type, heading, how) ==
  <<heading>> \o RenderMembers(Bucket(g, type), how)

\* one "if (groupedChildren.X && groupedChildren.X.length > 0)" block
Section(g, type, heading, how) ==
  IF Bucket(g, type) # <<>>
  THEN <<heading>> \o RenderMembers(Bucket(g, type), how)
  ELSE <<>>

\* lines 191-200: the keys that are none of the five named kinds
RECURSIVE OtherSections(_)
OtherSections(g) ==
  IF g = <<>> THEN <<>>
  ELSE (IF Head(g).type \notin {TConstructor, TProperty, TMethod, TField, TEvent}
        THEN <<"## ">> \o Head(g).type \o <<"s\n\n">>
               \o RenderMembers(Head(g).members, "generic")
        ELSE <<>>)
       \o OtherSections(Tail(g))

\* lines 122-128: the opening ApiClass tag
OpenApiClass(item) ==
  <<"<ApiClass">>
    \o Attribute("name", sanitizeForJsx(item.name))
    \o Attribute("namespace", sanitizeForJsx(item.namespace))
    \o buildAttribute("description", item.summary)
    \o <<">\n\n">>

\* .map((i) => sanitizeForMdx(i))
RECURSIVE MapSanitizeForMdx(_)
MapSanitizeForMdx(list) ==
  IF list = <<>> THEN <<>>
  ELSE <<sanitizeForMdx(Head(list))>> \o MapSanitizeForMdx(Tail(list))

generateClassComponent(classItem, d) ==
  OpenApiClass(classItem)
    \o (IF classItem.inheritance # <<>>
        THEN <<"**Inheritance:** ">>
               \o Join(MapSanitizeForMdx(classItem.inheritance), <<" → ">>)
               \o <<"\n\n">>
        ELSE <<>>)
    \o (IF classItem.implements # <<>>
        THEN <<"**Implements:** ">>
               \o Join(MapSanitizeForMdx(classItem.implements), <<",", " ">>)
               \o <<"\n\n">>
        ELSE <<>>)
    \o (IF classItem.children # <<>>
        THEN LET groupedChildren == groupChildren(classItem.children, d)
             IN Section(groupedChildren, TConstructor, "## Constructors\n\n", "method")
                  \o Section(groupedChildren, TField, "## Fields\n\n", "property")
                  \o Section(groupedChildren, TProperty, "## Properties\n\n", "property")
                  \o Section(groupedChildren, TMethod, "## Methods\n\n", "method")
                  \o Section(groupedChildren, TEvent, "## Events\n\n", "event")
                  \o OtherSections(groupedChildren)
        ELSE <<>>)
    \o <<"\n</ApiClass>">>

\* lines 222-233: every key of the object in insertion order
RECURSIVE StructSections(_)
StructSections(g) ==
  IF g = <<>> THEN <<>>
  ELSE <<"## ">> \o Head(g).type \o <<"s\n\n">>
         \o RenderMembers(Head(g).members,
                          IF Head(g).type = TMethod THEN "method"
                          ELSE IF Head(g).type \in {TProperty, TField} THEN "property"
                          ELSE "generic")
         \o StructSections(Tail(g))

generateStructComponent(structItem, d) ==
  OpenApiClass(structItem)
    \o <<"**Type:** Struct\n\n">>
    \o (IF structItem.children # <<>>
        THEN StructSections(groupChildren(structItem.children, d))
        ELSE <<>>)
    \o <<"\n</ApiClass>">>

\* lines 256-261: one enumerated value
RECURSIVE EnumValues(_)
EnumValues(fields) ==
  IF fields = <<>> THEN <<>>
  ELSE <<"<ApiProperty">>
         \o Attribute("name", sanitizeForJsx(Head(fields).name))
         \o Attribute("type", EnumValue)
         \o buildAttribute("description", Head(fields).summary)
         \o <<" />\n\n">>
         \o EnumValues(Tail(fields))

\* the enum page that lists the Property children in place of the fields
generateEnumComponentOfProperties(enumItem, d) ==
  OpenApiClass(enumItem)
    \o <<"**Type:** Enum\n\n">>
    \o (IF enumItem.children # <<>>
        THEN <<"## Values\n\n">>
               \o EnumValues(Bucket(groupChildren(enumItem.children, d), TProperty))
        ELSE <<>>)
    \o <<"\n</ApiClass>">>

generateEnumComponent(enumItem, d) ==
  OpenApiClass(enumItem)
    \o <<"**Type:** Enum\n\n">>
    \o (IF enumItem.children # <<>>
        THEN <<"## Values\n\n">>
               \o EnumValues(Bucket(groupChildren(enumItem.children, d), TField))
        ELSE <<>>)
    \o <<"\n</ApiClass>">>

\* lines 376-383: the list entries of the items after the first
RECURSIVE NamespaceEntries(_)
NamespaceEntries(list) ==
  IF list = <<>> THEN <<>>
  ELSE (IF Head(list).name # <<>> /\ Head(list).type # <<>>
        THEN <<"- **">> \o sanitizeForMdx(Head(list).name)
               \o <<"** (">> \o sanitizeForMdx(Head(list).type)
               \o <<") - ">> \o sanitizeForMdx(Head(list).summary)
               \o <<"\n">>
        ELSE <<>>)
       \o NamespaceEntries(Tail(list))

generateNamespaceContent(namespaceItem, d) ==
  <<"# ">> \o sanitizeForMdx(namespaceItem.name) \o <<"\n\n">>
    \o (IF sanitizeForMdx(namespaceItem.summary) # <<>>
        THEN sanitizeForMdx(namespaceItem.summary) \o <<"\n\n">> ELSE <<>>)
    \o (IF Len(d.items) > 1
        THEN <<"## Classes and Types\n\n">> \o NamespaceEntries(Tail(d.items))
        ELSE <<>>)

\* lines 92-93
ImportLine ==
  "import { ApiClass, ApiMethod, ApiProperty, ApiParameters, ApiParameter, ApiReturns, ApiExample } from \"@site/src/components/ApiComponents\";\n\n"

\* the frontmatter with its sidebar_label line before its title line
FrontmatterLabelFirst(safeId, safeTitle) ==
  <<"---\n", "id: \"">> \o safeId \o <<"\"\n">>
    \o <<"sidebar_label: \"">> \o safeTitle \o <<"\"\n">>
    \o <<"title: \"">> \o safeTitle \o <<"\"\n">>
    \o <<"hide_table_of_contents: false\n", "---\n\n">>
    \o <<ImportLine>>

\* lines 81-93: the frontmatter and the import line
Frontmatter(safeId, safeTitle) ==
  <<"---\n", "id: \"">> \o safeId \o <<"\"\n">>
    \o <<"title: \"">> \o safeTitle \o <<"\"\n">>
    \o <<"sidebar_label: \"">> \o safeTitle \o <<"\"\n">>
    \o <<"hide_table_of_contents: false\n", "---\n\n">>
    \o <<ImportLine>>

\* lines 96-111 with the Struct and Enum branches missing
PageBodyNoStructEnum(item, d) ==
  IF item.type = TClass THEN generateClassComponent(item, d)
  ELSE IF item.type = TMethod THEN generateMethodComponent(item)
  ELSE IF item.type = TProperty THEN generatePropertyComponent(item)
  ELSE IF item.type = TNamespace THEN generateNamespaceContent(item, d)
  ELSE generateGenericContent(item)

\* lines 96-111: the renderer chosen by item.type
PageBody(item, d) ==
  IF item.type = TClass THEN generateClassComponent(item, d)
  ELSE IF item.type = TMethod THEN generateMethodComponent(item)
  ELSE IF item.type = TProperty THEN generatePropertyComponent(item)
  ELSE IF item.type = TNamespace THEN generateNamespaceContent(item, d)
  ELSE IF item.type = TEnum THEN generateEnumComponent(item, d)
  ELSE IF item.type = TStruct THEN generateStructComponent(item, d)
  ELSE generateGenericContent(item)

convertYamlToMdx(d, fname) ==
  LET item == d.items[1]
      safeTitle == sanitizeForMdx(Or(item.name, ReplaceFirst(fname, DotMd, <<>>)))
      safeId == sanitizeId(Or(item.uid, Or(item.name, ReplaceFirst(fname, DotMd, <<>>))))
  IN Frontmatter(safeId, safeTitle) \o PageBody(item, d)

(***************************************************************************)
(* Inputs of the sanitizer specifications                                  *)
(***************************************************************************)
StringsUpTo(alphabet, n) == UNION {[1..k -> alphabet] : k \in 0..n}

JsxAlphabet == {"&", "\"", "'", "<", ">", "a", " ", "\\", "{"}
MdxAlphabet == {"<", ">", "a", "{", " ", "\n"}

(***************************************************************************)
(* Attribute-safe sanitization applied once and then to its own output     *)
(***************************************************************************)
InitJsx ==
  /\ pc = "jsx"
  /\ text \in StringsUpTo(JsxAlphabet, MaxJsxLen)
  /\ once = <<>>
  /\ twice = <<>>
  /\ GroupIdle
  /\ RenderIdle
  /\ BatchIdle
  /\ NameIdle

SanitizeJsxOnce ==
  /\ pc = "jsx"
  /\ once' = sanitizeForJsx(text)
  /\ pc' = "jsx1"
  /\ UNCHANGED <<text, twice>>
  /\ UNCHANGED groupVars
  /\ UNCHANGED renderVars
  /\ UNCHANGED batchVars
  /\ UNCHANGED nameVars

SanitizeJsxTwice ==
  /\ pc = "jsx1"
  /\ twice' = sanitizeForJsx(once)
  /\ pc' = "jsx2"
  /\ UNCHANGED <<text, once>>
  /\ UNCHANGED groupVars
  /\ UNCHANGED renderVars
  /\ UNCHANGED batchVars
  /\ UNCHANGED nameVars

NextJsx == SanitizeJsxOnce \/ SanitizeJsxTwice

SpecJsx == InitJsx /\ [][NextJsx]_vars

(***************************************************************************)
(* Prose-safe sanitization applied once and then to its own output         *)
(***************************************************************************)
InitMdx ==
  /\ pc = "mdx"
  /\ text \in StringsUpTo(MdxAlphabet, MaxMdxLen)
  /\ once = <<>>
  /\ twice = <<>>
  /\ GroupIdle
  /\ RenderIdle
  /\ BatchIdle
  /\ NameIdle

SanitizeMdxOnce ==
  /\ pc = "mdx"
  /\ once' = sanitizeForMdx(text)
  /\ pc' = "mdx1"
  /\ UNCHANGED <<text, twice>>
  /\ UNCHANGED groupVars
  /\ UNCHANGED renderVars
  /\ UNCHANGED batchVars
  /\ UNCHANGED nameVars

SanitizeMdxTwice ==
  /\ pc = "mdx1"
  /\ twice' = sanitizeForMdx(once)
  /\ pc' = "mdx2"
  /\ UNCHANGED <<text, once>>
  /\ UNCHANGED groupVars
  /\ UNCHANGED renderVars
  /\ UNCHANGED batchVars
  /\ UNCHANGED nameVars

NextMdx == SanitizeMdxOnce \/ SanitizeMdxTwice

SpecMdx == InitMdx /\ [][NextMdx]_vars

(***************************************************************************)
(* groupChildren applied to a children list and a document                 *)
(***************************************************************************)
GroupUids == {<<"a">>, <<"b">>, <<"c">>}

\* the shallow reference entries a uid can have: none, or one of these
RefChoices(u) ==
  {<<>>} \cup {<<[uid |-> u, type |-> t, name |-> <<"r">>]>> :
                 t \in {TMethod, TProperty, <<>>}}

\* the full items a uid can have: none, or a field
ItemChoices(u) == {<<>>, <<[uid |-> u, type |-> TField, name |-> <<"i">>]>>}

GroupDocuments ==
  {[references |-> ra \o rb \o rc, items |-> ia \o ib \o ic] :
     ra \in RefChoices(<<"a">>), rb \in RefChoices(<<"b">>),
     rc \in RefChoices(<<"c">>), ia \in ItemChoices(<<"a">>),
     ib \in ItemChoices(<<"b">>), ic \in ItemChoices(<<"c">>)}

InitGroup ==
  /\ pc = "group"
  /\ children \in StringsUpTo(GroupUids, MaxChildren)
  /\ data \in GroupDocuments
  /\ groups = <<>>
  /\ SanIdle
  /\ RenderIdle
  /\ BatchIdle
  /\ NameIdle

GroupChildren ==
  /\ pc = "group"
  /\ groups' = groupChildren(children, data)
  /\ pc' = "grouped"
  /\ UNCHANGED <<children, data>>
  /\ UNCHANGED sanVars
  /\ UNCHANGED renderVars
  /\ UNCHANGED batchVars
  /\ UNCHANGED nameVars

NextGroup == GroupChildren

SpecGroup == InitGroup /\ [][NextGroup]_vars

(***************************************************************************)
(* convertYamlToMdx applied to a parsed document                           *)
(***************************************************************************)
NoReturn == [present |-> FALSE, type |-> <<>>, description |-> <<>>]
NoSyntax == [present |-> FALSE, parameters |-> <<>>, return |-> NoReturn]

\* an item that has only uid, name and type
Item(uid, name, type) ==
  [uid |-> uid, name |-> name, type |-> type, namespace |-> <<>>,
   summary |-> <<>>, children |-> <<>>, syntax |-> NoSyntax,
   modifiers |-> <<>>, example |-> <<>>, inheritance |-> <<>>,
   implements |-> <<>>]

Foo == <<"F", "o", "o">>
Bar == <<"B", "a", "r">>
GenericName == <<"A", "<", "T", ">">>
QuotedSummary == <<"a", " ", "\"", "b", "\"">>
NS == <<"N", "S">>
IntType == <<"i", "n", "t">>
UidT == <<"T">>
UidBar == <<"T", ".", "B", "a", "r">>
UidCtor == <<"T", ".", "#", "c", "t", "o", "r">>
UidFld == <<"T", ".", "f">>
UidPrp == <<"T", ".", "P">>
UidEvt == <<"T", ".", "E">>
UidOp == <<"T", ".", "o", "p">>
UidGone == <<"T", ".", "g", "o", "n", "e">>
TOperator == <<"O", "p", "e", "r", "a", "t", "o", "r">>

\* the shallow entries of references
RenderReferences ==
  <<Item(UidBar, Bar, TMethod),
    Item(UidCtor, Foo, TConstructor),
    Item(UidFld, <<"f">>, TField),
    Item(UidPrp, <<"P">>, TProperty),
    Item(UidEvt, <<"E">>, TEvent),
    Item(UidOp, <<"o", "p">>, TOperator)>>

RenderSyntaxes ==
  {NoSyntax,
   [present |-> TRUE, parameters |-> <<>>,
    return |-> [present |-> TRUE, type |-> IntType, description |-> <<>>]],
   [present |-> TRUE, parameters |-> <<>>,
    return |-> [present |-> TRUE, type |-> Void, description |-> <<>>]],
   [present |-> TRUE,
    parameters |-> <<[id |-> <<"x">>, name |-> <<>>, type |-> IntType,
                      description |-> QuotedSummary]>>,
    return |-> [present |-> TRUE, type |-> <<>>, description |-> <<"r">>]]}

RenderChildren ==
  {<<>>,
   <<UidBar>>,
   <<UidGone>>,
   <<UidOp, UidEvt, UidBar, UidGone, UidPrp, UidFld, UidCtor, UidBar>>}

PrimaryTypes ==
  {TClass, TStruct, TEnum, TMethod, TProperty, TNamespace,
   TConstructor, TField, TEvent, TInterface, <<>>}

\* the optional parts of an item that is declared in full
Decorate(item, decorated) ==
  IF decorated
  THEN [item EXCEPT !.modifiers = <<(<<"p", "u", "b">>), (<<"s", "t">>)>>,
                    !.example = <<"\t", "x", "\r", "\n">>,
                    !.inheritance = <<Object, GenericName>>,
                    !.implements = <<(<<"I">>), (<<"J">>)>>]
  ELSE item

RenderDocuments ==
  {[references |-> RenderReferences,
    items |-> <<Decorate([Item(uid, name, type) EXCEPT !.namespace = namespace,
                                                       !.summary = summary,
                                                       !.children = kids,
                                                       !.syntax = syntax],
                         decorated)>> \o rest] :
     uid \in {UidT, <<>>}, name \in {Foo, GenericName, <<>>},
     type \in PrimaryTypes, namespace \in {NS, <<>>},
     summary \in {QuotedSummary, <<>>}, kids \in RenderChildren,
     syntax \in RenderSyntaxes, decorated \in BOOLEAN,
     rest \in {<<>>, <<Item(<<"O">>, Bar, TClass), Item(<<"U">>, <<>>, TEnum)>>}}

InitRender ==
  /\ pc = "render"
  /\ data \in RenderDocuments
  /\ filename = <<"T", ".", "m", "d">>
  /\ page = <<>>
  /\ children = <<>>
  /\ groups = <<>>
  /\ SanIdle
  /\ BatchIdle
  /\ NameIdle

ConvertYamlToMdx ==
  /\ pc = "render"
  /\ page' = convertYamlToMdx(data, filename)
  /\ pc' = "rendered"
  /\ UNCHANGED <<filename, children, data, groups>>
  /\ UNCHANGED sanVars
  /\ UNCHANGED batchVars
  /\ UNCHANGED nameVars

NextRender == ConvertYamlToMdx

SpecRender == InitRender /\ [][NextRender]_vars

(***************************************************************************)
(* convertYamlToMdx applied to a Class, Struct or Enum whose children come *)
(* in every order                                                          *)
(***************************************************************************)
UidFld2 == <<"T", ".", "g">>
ChildUids == {UidBar, UidCtor, UidFld, UidFld2, UidPrp, UidEvt, UidOp, UidGone}

MemberDocuments ==
  {[references |-> RenderReferences \o <<Item(UidFld2, <<"g">>, TField)>>,
    items |-> <<[Item(UidT, Foo, type) EXCEPT !.namespace = NS,
                                              !.children = kids]>>] :
     type \in {TClass, TStruct, TEnum},
     kids \in StringsUpTo(ChildUids, MaxChildren)}

InitMembers ==
  /\ pc = "render"
  /\ data \in MemberDocuments
  /\ filename = <<"T", ".", "m", "d">>
  /\ page = <<>>
  /\ children = <<>>
  /\ groups = <<>>
  /\ SanIdle
  /\ BatchIdle
  /\ NameIdle

SpecMembers == InitMembers /\ [][NextRender]_vars

(***************************************************************************)
(* The member renderers applied to one item                                *)
(***************************************************************************)
TypeParam == <<"{", "T", "}">>

\* the entries syntax.parameters can have
MemberParams ==
  {[id |-> <<"x">>, name |-> <<>>, type |-> IntType, description |-> QuotedSummary],
   [id |-> <<>>, name |-> <<"y">>, type |-> TypeParam, description |-> <<>>],
   [id |-> <<>>, name |-> <<>>, type |-> <<>>, description |-> <<>>]}

\* syntax.return: absent, or with or without a type and a description
MemberReturns ==
  {NoReturn} \cup
  {[present |-> TRUE, type |-> t, description |-> d] :
     t \in {<<>>, <<"v", "o", "i", "d">>, IntType, TypeParam},
     d \in {<<>>, <<"r">>}}

MemberSyntaxes ==
  {NoSyntax} \cup
  {[present |-> TRUE, parameters |-> ps, return |-> r] :
     ps \in StringsUpTo(MemberParams, MaxParams), r \in MemberReturns}

MemberItems ==
  {[Item(UidBar, name, type) EXCEPT !.summary = summary,
                                    !.syntax = syntax,
                                    !.modifiers = modifiers] :
     name \in {Bar, GenericName, <<>>}, type \in {IntType, <<>>},
     summary \in {QuotedSummary, <<>>}, syntax \in MemberSyntaxes,
     modifiers \in {<<>>, <<(<<"p", "u", "b">>), (<<"s", "t">>)>>}}

InitMember ==
  /\ pc = "member"
  /\ data \in {[references |-> <<>>, items |-> <<item>>] : item \in MemberItems}
  /\ page = <<>>
  /\ filename = <<>>
  /\ children = <<>>
  /\ groups = <<>>
  /\ SanIdle
  /\ BatchIdle
  /\ NameIdle

\* one member renderer called on the item; its result is page
RenderMember(result, to) ==
  /\ pc = "member"
  /\ page' = result
  /\ pc' = to
  /\ UNCHANGED <<filename, children, data, groups>>
  /\ UNCHANGED sanVars
  /\ UNCHANGED batchVars
  /\ UNCHANGED nameVars

GenerateMethodSignature ==
  RenderMember(generateMethodSignature(data.items[1]), "signature")

GenerateMethodComponent ==
  RenderMember(generateMethodComponent(data.items[1]), "method")

GeneratePropertyComponent ==
  RenderMember(generatePropertyComponent(data.items[1]), "property")

GenerateEventComponent ==
  RenderMember(generateEventComponent(data.items[1]), "event")

NextMember ==
  \/ GenerateMethodSignature
  \/ GenerateMethodComponent
  \/ GeneratePropertyComponent
  \/ GenerateEventComponent

SpecMember == InitMember /\ [][NextMember]_vars

(***************************************************************************)
(* convertYamlToMdx applied to a page all of whose texts are one text      *)
(***************************************************************************)
AttrAlphabet == {"\"", "\\", "{", "}", "<", ">", "a"}

\* a method with a parameter, a return entry and a modifier
AttrMethod(t) ==
  [Item(UidBar, t, TMethod) EXCEPT
     !.summary = t,
     !.modifiers = <<t>>,
     !.syntax = [present |-> TRUE,
                 parameters |-> <<[id |-> t, name |-> <<>>, type |-> t,
                                   description |-> t]>>,
                 return |-> [present |-> TRUE, type |-> t, description |-> t]]]

\* a member of another kind; its type comes from syntax.return when typed
AttrMember(uid, type, t, typed) ==
  [Item(uid, t, type) EXCEPT
     !.summary = t,
     !.syntax = IF typed
                THEN [present |-> TRUE, parameters |-> <<>>,
                      return |-> [present |-> TRUE, type |-> t,
                                  description |-> <<>>]]
                ELSE NoSyntax]

AttrDocuments ==
  {[references |-> <<AttrMethod(t),
                     AttrMember(UidCtor, TConstructor, t, FALSE),
                     AttrMember(UidFld, TField, t, FALSE),
                     AttrMember(UidPrp, TProperty, t, TRUE),
                     AttrMember(UidEvt, TEvent, t, FALSE)>>,
    items |-> <<[Item(UidT, t, type) EXCEPT
                   !.namespace = t,
                   !.summary = t,
                   !.children = <<UidCtor, UidFld, UidPrp, UidBar, UidEvt>>]>>] :
     t \in StringsUpTo(AttrAlphabet, MaxJsxLen),
     type \in {TClass, TStruct, TEnum}}

InitAttr ==
  /\ pc = "render"
  /\ data \in AttrDocuments
  /\ filename = <<"T", ".", "m", "d">>
  /\ page = <<>>
  /\ children = <<>>
  /\ groups = <<>>
  /\ SanIdle
  /\ BatchIdle
  /\ NameIdle

SpecAttr == InitAttr /\ [][NextRender]_vars

(***************************************************************************)
(* The batch runs: the Node converter and the shell converters that take   *)
(* SOURCE_DIR and TARGET_DIR.  A source file is named by its position in   *)
(* files; its target has the same name.                                    *)
(***************************************************************************)
\* the shortest content the shell converters process
MinContentLength == 10

\* what a .yml file of the Node converter can be
NodeFileKinds ==
  {"toc",          \* toc.yml
   "malformed",    \* yaml.load throws
   "noitems",      \* no items, or an empty list of items
   "unrenderable", \* convertYamlToMdx throws
   "unwritable",   \* writeFileSync throws
   "undeletable",  \* unlinkSync throws
   "good"}

\* what a .md file of the shell converters can be
ShellFileKinds ==
  {[readable |-> FALSE, length |-> 0]}
    \cup {[readable |-> TRUE, length |-> n] : n \in {0, 9, 10}}

\* process-docfx-markdown.sh, the first script of unnamed/part_000, and
\* process-docfx-markdown-final-fix.sh (unnamed/part_002 has the same flow)
ShellProgs == {"basic", "enhanced", "final"}

InitBatch ==
  /\ pc = "start"
  /\ prog \in {"node"} \cup ShellProgs
  /\ srcDir \in {"missing", "unreadable", "ok"}
  /\ files \in IF srcDir # "ok" THEN {<<>>}
               ELSE IF prog = "node" THEN StringsUpTo(NodeFileKinds, MaxFiles)
               ELSE StringsUpTo(ShellFileKinds, MaxFiles)
  /\ idx = 1
  /\ written = {}
  /\ statics = {}
  /\ removed = {}
  /\ processedCount = 0
  /\ skippedCount = 0
  /\ alive = TRUE
  /\ exitCode = -1
  /\ SanIdle
  /\ GroupIdle
  /\ RenderIdle
  /\ NameIdle

BatchRest ==
  UNCHANGED <<sanVars, groupVars, renderVars, nameVars, prog, srcDir, files>>

\* processDocFxFiles, lines 8-14: no directory, nothing to do
NodeSkipRun ==
  /\ pc = "start"
  /\ prog = "node"
  /\ srcDir = "missing"
  /\ pc' = "done"
  /\ exitCode' = 0
  /\ UNCHANGED <<idx, written, statics, removed, processedCount, skippedCount,
                 alive>>
  /\ BatchRest

\* lines 16-17 and 560-565: readdirSync throws, the top level exits with 1
NodeAbort ==
  /\ pc = "start"
  /\ prog = "node"
  /\ srcDir = "unreadable"
  /\ pc' = "done"
  /\ exitCode' = 1
  /\ UNCHANGED <<idx, written, statics, removed, processedCount, skippedCount,
                 alive>>
  /\ BatchRest

\* lines 16-22: the .yml files are listed and the counters start at 0
NodeList ==
  /\ pc = "start"
  /\ prog = "node"
  /\ srcDir = "ok"
  /\ pc' = "loop"
  /\ UNCHANGED <<idx, written, statics, removed, processedCount, skippedCount,
                 alive, exitCode>>
  /\ BatchRest

\* processYamlFile returns without throwing for this file
NodeReturns(kind) == kind \in {"noitems", "good"}

\* the catch block counts nothing
NodeSkipsOnlyToc(kind) == kind = "toc"

\* lines 26-29 and 34-37: toc.yml, and a file whose processYamlFile throws
NodeSkips(kind) == kind = "toc" \/ ~NodeReturns(kind)

\* the source is unlinked although the write of its page failed
NodeRemovesUnwritten(kind) == kind \in {"good", "unwritable"}

\* processYamlFile, lines 66-71: unlinkSync runs, after writeFileSync has
\* returned, and succeeds
NodeRemoves(kind) == kind = "good"

\* lines 24-38 with processYamlFile (45-72): one iteration of files.forEach
NodeProcessFile ==
  /\ pc = "loop"
  /\ prog = "node"
  /\ idx <= Len(files)
  /\ LET kind == files[idx]
     IN /\ written' = IF kind \in {"good", "undeletable"}
                      THEN written \cup {[file |-> idx, content |-> "page"]}
                      ELSE written
        /\ removed' = IF NodeRemoves(kind) THEN removed \cup {idx} ELSE removed
        /\ processedCount' = IF kind # "toc" /\ NodeReturns(kind)
                             THEN processedCount + 1 ELSE processedCount
        /\ skippedCount' = IF NodeSkips(kind)
                           THEN skippedCount + 1 ELSE skippedCount
  /\ idx' = idx + 1
  /\ UNCHANGED <<pc, statics, alive, exitCode>>
  /\ BatchRest

\* lines 40-42: the summary; the process ends with status 0
NodeFinish ==
  /\ pc = "loop"
  /\ prog = "node"
  /\ idx > Len(files)
  /\ pc' = "done"
  /\ exitCode' = 0
  /\ UNCHANGED <<idx, written, statics, removed, processedCount, skippedCount,
                 alive>>
  /\ BatchRest

\* unnamed/part_000 lines 17-20: the only script that checks SOURCE_DIR
ShellRejectSource ==
  /\ pc = "start"
  /\ prog = "enhanced"
  /\ srcDir = "missing"
  /\ pc' = "done"
  /\ exitCode' = 1
  /\ UNCHANGED <<idx, written, statics, removed, processedCount, skippedCount,
                 alive>>
  /\ BatchRest

\* mkdir -p "$TARGET_DIR", then the pipeline find | while read starts; find
\* fails on a directory it cannot list and the loop reads no file name
ShellStart ==
  /\ pc = "start"
  /\ prog \in ShellProgs
  /\ ~(prog = "enhanced" /\ srcDir = "missing")
  /\ pc' = "loop"
  /\ UNCHANGED <<idx, written, statics, removed, processedCount, skippedCount,
                 alive, exitCode>>
  /\ BatchRest

\* the file is skipped by the script's test of its content
ShellSkips(p, f) ==
  IF p = "basic" THEN f.length = 0 ELSE f.length < MinContentLength

\* one iteration of the while loop.  The loop runs in a subshell under
\* set -e: a command that returns non-zero ends the subshell, and
\* ((n++)) returns non-zero when n was 0.
ShellProcessFile ==
  /\ pc = "loop"
  /\ prog \in ShellProgs
  /\ alive
  /\ idx <= Len(files)
  /\ LET f == files[idx]
         skipCounted == prog = "enhanced" /\ (~f.readable \/ ShellSkips(prog, f))
         writes == f.readable /\ ~ShellSkips(prog, f)
         processCounted == writes /\ prog # "basic"
     IN /\ written' = IF writes
                      THEN written \cup {[file |-> idx, content |-> "page"]}
                      ELSE written
        /\ skippedCount' = IF skipCounted THEN skippedCount + 1 ELSE skippedCount
        /\ processedCount' = IF processCounted THEN processedCount + 1
                             ELSE processedCount
        /\ alive' = ~ \/ (prog = "basic" /\ ~f.readable)
                      \/ (skipCounted /\ skippedCount = 0)
                      \/ (processCounted /\ processedCount = 0)
  /\ idx' = idx + 1
  /\ UNCHANGED <<pc, statics, removed, exitCode>>
  /\ BatchRest

\* the pipeline ends with the status of the loop's subshell; under set -e a
\* failed pipeline ends the script
ShellLoopEnd ==
  /\ pc = "loop"
  /\ prog \in ShellProgs
  /\ ~alive \/ idx > Len(files)
  /\ IF alive
     THEN pc' = "index" /\ UNCHANGED exitCode
     ELSE pc' = "done" /\ exitCode' = 1
  /\ UNCHANGED <<idx, written, statics, removed, processedCount, skippedCount,
                 alive>>
  /\ BatchRest

\* index.md and, but for the first script, .gitignore are written
ShellWriteIndex ==
  /\ pc = "index"
  /\ prog \in ShellProgs
  /\ statics' = IF prog = "basic" THEN {"index.md"}
                ELSE {"index.md", ".gitignore"}
  /\ pc' = "done"
  /\ exitCode' = 0
  /\ UNCHANGED <<idx, written, removed, processedCount, skippedCount, alive>>
  /\ BatchRest

NextBatch ==
  \/ NodeSkipRun
  \/ NodeAbort
  \/ NodeList
  \/ NodeProcessFile
  \/ NodeFinish
  \/ ShellRejectSource
  \/ ShellStart
  \/ ShellProcessFile
  \/ ShellLoopEnd
  \/ ShellWriteIndex

SpecBatch == InitBatch /\ [][NextBatch]_vars

\* C1: attribute-safe sanitization is idempotent: sanitizing the output of
\* sanitizeForJsx again gives the same text.
C1_JsxIdempotent == pc = "jsx2" => twice = once

\* C2: prose-safe sanitization is idempotent: sanitizing the output of
\* sanitizeForMdx again gives the same text.
C2_MdxIdempotent == pc = "mdx2" => twice = once

\* s has a substring "<" identifier ">"
HasTypeParameter(s) ==
  \E i \in 1..Len(s) : \E j \in (i + 2)..Len(s) :
    /\ s[i] = "<"
    /\ s[j] = ">"
    /\ \A k \in (i + 1)..(j - 1) : s[k] \in IdentChars

\* C8: the output of sanitizeForMdx has no substring "<" identifier ">".
C8_NoTypeParameterLeft == pc \in {"mdx1", "mdx2"} => ~HasTypeParameter(once)

\* an input with two type parameters has been sanitized and both are escaped
C8_Witness ==
  /\ pc = "mdx1"
  /\ text = <<"<", "a", ">", "<", "a">> \o <<">">>
  /\ once = LtEntity \o <<"a">> \o GtEntity \o LtEntity \o <<"a">> \o GtEntity

\* the uid is that of an entry of references or of items
Resolvable(u) ==
  \/ \E i \in 1..Len(data.references) : data.references[i].uid = u
  \/ \E i \in 1..Len(data.items) : data.items[i].uid = u

\* the uids of the members of a bucket, in bucket order
MemberUids(b) == [k \in 1..Len(b.members) |-> b.members[k].uid]

InBucket(b, u) == \E k \in 1..Len(b.members) : b.members[k].uid = u

\* C9: every bucket lists its members in the order of their uids in children,
\* once per occurrence, and every resolved child is in exactly one bucket.
C9_GroupingKeepsOrder ==
  pc = "grouped" =>
    /\ \A i \in 1..Len(groups) :
         MemberUids(groups[i]) =
           SelectSeq(children, LAMBDA u : InBucket(groups[i], u))
    /\ \A i, j \in 1..Len(groups) :
         i # j => /\ groups[i].type # groups[j].type
                  /\ \A u \in GroupUids : ~(InBucket(groups[i], u) /\ InBucket(groups[j], u))
    /\ \A k \in 1..Len(children) :
         Resolvable(children[k]) => \E i \in 1..Len(groups) : InBucket(groups[i], children[k])

\* children [a, b, a] that all resolve to methods are grouped as [a, b, a]
C9_Witness ==
  /\ pc = "grouped"
  /\ children = <<(<<"a">>), (<<"b">>), (<<"a">>)>>
  /\ Len(groups) = 1
  /\ groups[1].type = TMethod
  /\ MemberUids(groups[1]) = children

\* C10: uids found in neither references nor items are dropped: only
\* unresolvable children give the empty object, and the object is the one
\* the resolvable children alone give.
C10_UnresolvedDropped ==
  pc = "grouped" =>
    /\ (\A k \in 1..Len(children) : ~Resolvable(children[k])) => groups = <<>>
    /\ \A i \in 1..Len(groups) : \A k \in 1..Len(groups[i].members) :
         Resolvable(groups[i].members[k].uid)
    /\ groups = groupChildren(SelectSeq(children, Resolvable), data)

\* an unresolvable uid between two resolvable ones has been dropped
C10_Witness ==
  /\ pc = "grouped"
  /\ Len(children) = 3
  /\ Resolvable(children[1])
  /\ ~Resolvable(children[2])
  /\ Resolvable(children[3])
  /\ Len(groups) = 1
  /\ Len(groups[1].members) = 2

\* position of the first element of s that equals e, 0 when there is none
IndexOf(s, e) ==
  IF \E i \in 1..Len(s) : s[i] = e
  THEN CHOOSE i \in 1..Len(s) : s[i] = e /\ \A j \in 1..(i - 1) : s[j] # e
  ELSE 0

\* the part of a page after the frontmatter and the import line
BodyOf(p) == SubSeq(p, IndexOf(p, ImportLine) + 1, Len(p))

HasChunk(s, e) == \E i \in 1..Len(s) : s[i] = e

\* C3: a Property page whose item has no syntax field is an ApiProperty tag
\* with type="object".
C3_PropertyTypeFallsBackToObject ==
  (pc = "rendered" /\ data.items[1].type = TProperty
     /\ ~data.items[1].syntax.present) =>
    /\ Head(BodyOf(page)) = "<ApiProperty"
    /\ Contains(BodyOf(page), Attribute("type", Object))

\* C6: the page body of items[0] is the output of the one renderer of its
\* type (the generic one for every other or missing type) and is not empty.
C6_OneRendererByType ==
  pc = "rendered" =>
    LET type == data.items[1].type
        body == BodyOf(page)
    IN /\ HasChunk(page, ImportLine)
       /\ body # <<>>
       /\ type = TClass =>
            /\ Head(body) = "<ApiClass"
            /\ body[Len(body)] = "\n</ApiClass>"
            /\ ~HasChunk(body, "**Type:** Struct\n\n")
            /\ ~HasChunk(body, "**Type:** Enum\n\n")
       /\ type = TStruct =>
            /\ Head(body) = "<ApiClass"
            /\ body[Len(body)] = "\n</ApiClass>"
            /\ HasChunk(body, "**Type:** Struct\n\n")
       /\ type = TEnum =>
            /\ Head(body) = "<ApiClass"
            /\ body[Len(body)] = "\n</ApiClass>"
            /\ HasChunk(body, "**Type:** Enum\n\n")
       /\ type = TMethod =>
            /\ Head(body) = "<ApiMethod"
            /\ body[Len(body)] = "</ApiMethod>\n\n"
       /\ type = TProperty =>
            /\ Head(body) = "<ApiProperty"
            /\ body[Len(body)] = " />\n\n"
       /\ type = TNamespace =>
            /\ Head(body) = "# "
            /\ ~HasChunk(body, "**Type:** ")
       /\ type \notin {TClass, TStruct, TEnum, TMethod, TProperty, TNamespace} =>
            /\ Head(body) = "# "
            /\ HasChunk(body, "**Type:** ")

\* a Struct page has been rendered by the struct renderer
C6_Witness ==
  /\ pc = "rendered"
  /\ data.items[1].type = TStruct
  /\ data.items[1].children # <<>>
  /\ HasChunk(BodyOf(page), "**Type:** Struct\n\n")

\* C7: for a type that has no renderer of its own the body is not empty and
\* contains the sanitized name and the type, "Unknown" standing for an
\* absent name or type.
C7_FallbackShowsNameAndType ==
  (pc = "rendered" /\ data.items[1].type \notin
     {TClass, TStruct, TEnum, TMethod, TProperty, TNamespace}) =>
    LET item == data.items[1]
        body == BodyOf(page)
    IN /\ body # <<>>
       /\ Contains(body, sanitizeForMdx(IF item.name = <<>> THEN Unknown ELSE item.name))
       /\ Contains(body, IF item.type = <<>> THEN Unknown ELSE item.type)
       /\ \E i \in 1..Len(body) :
            /\ body[i] = "**Type:** "
            /\ MatchAt(body, IF item.type = <<>> THEN Unknown ELSE item.type, i + 1)

\* an item without name and type has been rendered with "Unknown" twice
C7_Witness ==
  /\ pc = "rendered"
  /\ data.items[1].type = <<>>
  /\ data.items[1].name = <<>>
  /\ BodyOf(page) = <<"# ">> \o Unknown \o <<"\n\n", "**Type:** ">> \o Unknown \o <<"\n\n">>

\* the files of the Node converter whose processing throws
NodeFails(kind) == kind \in {"malformed", "unrenderable", "unwritable"}

\* C4: when a file fails, a fallback page is written for it, and the files
\* after it are processed all the same.
C4_FailureWritesFallback ==
  (prog = "node" /\ pc = "done" /\ srcDir = "ok") =>
    /\ idx = Len(files) + 1
    /\ \A i \in 1..Len(files) :
         /\ files[i] = "good" => [file |-> i, content |-> "page"] \in written
         /\ NodeFails(files[i]) => [file |-> i, content |-> "fallback"] \in written

\* C5: a run whose source directory is missing ends with a non-zero exit
\* status and has written no file.
C5_MissingSourceAborts ==
  (pc = "done" /\ srcDir = "missing") => (exitCode # 0 /\ written = {} /\ statics = {})

\* the uid is that of an entry of references
Referenced(u) == \E i \in 1..Len(data.references) : data.references[i].uid = u

\* the first entry of list with that uid
EntryOf(list, u) ==
  list[CHOOSE i \in 1..Len(list) :
         list[i].uid = u /\ \A j \in 1..(i - 1) : list[j].uid # u]

\* C11: every grouped member is the entry of references with its uid when
\* references has one, and the entry of items only otherwise; the type of
\* that entry ("Member" when it has none) is the bucket it is in.
C11_ReferencesFirst ==
  pc = "grouped" =>
    \A i \in 1..Len(groups) : \A k \in 1..Len(groups[i].members) :
      LET m == groups[i].members[k]
          src == IF Referenced(m.uid) THEN EntryOf(data.references, m.uid)
                 ELSE EntryOf(data.items, m.uid)
      IN /\ m = src
         /\ groups[i].type = (IF src.type # <<>> THEN src.type ELSE Member)

\* a uid that is a Method in references and a Field in items has been
\* grouped as the Method of references
C11_Witness ==
  /\ pc = "grouped"
  /\ children = <<(<<"a">>)>>
  /\ Referenced(<<"a">>)
  /\ \E i \in 1..Len(data.items) : data.items[i].uid = <<"a">>
  /\ groups = <<[type |-> TMethod,
                 members |-> <<[uid |-> <<"a">>, type |-> TMethod, name |-> <<"r">>]>>]>>

\* the kind a child uid is grouped under, <<>> when it does not resolve
ChildKind(u) ==
  LET c == ResolveChild(u, data)
  IN IF ~c.found THEN <<>> ELSE IF c.item.type # <<>> THEN c.item.type ELSE Member

\* the number of children of items[0] whose kind is in kinds
CountKinds(kinds) ==
  Cardinality({k \in 1..Len(data.items[1].children) :
                 ChildKind(data.items[1].children[k]) \in kinds})

\* the number of chunks of s that equal e
CountChunk(s, e) == Cardinality({i \in 1..Len(s) : s[i] = e})

\* the five named sections of a class page, in the order of the renderer
ClassKinds == <<TConstructor, TField, TProperty, TMethod, TEvent>>
ClassHeadings ==
  <<"## Constructors\n\n", "## Fields\n\n", "## Properties\n\n",
    "## Methods\n\n", "## Events\n\n">>

\* C12: a Class page opens and closes with the ApiClass tag; between them
\* each of Constructors, Fields, Properties, Methods, Events appears once
\* when a child of that kind resolves and not at all otherwise, always in
\* that order; the sections of the other kinds come after all of them and
\* hold generic member entries; every resolved child is rendered once by
\* the renderer of its section.
C12_ClassSectionOrder ==
  (pc = "rendered" /\ data.items[1].type = TClass) =>
    LET body == BodyOf(page)
        named == {ClassKinds[n] : n \in 1..5}
    IN /\ Head(body) = "<ApiClass"
       /\ body[Len(body)] = "\n</ApiClass>"
       /\ CountChunk(body, "<ApiClass") = 1
       /\ \A n \in 1..5 :
            CountChunk(body, ClassHeadings[n]) =
              (IF CountKinds({ClassKinds[n]}) > 0 THEN 1 ELSE 0)
       /\ \A n, m \in 1..5 :
            (n < m /\ HasChunk(body, ClassHeadings[n]) /\ HasChunk(body, ClassHeadings[m]))
              => IndexOf(body, ClassHeadings[n]) < IndexOf(body, ClassHeadings[m])
       /\ \A i \in 1..Len(body) :
            body[i] = "## " =>
              /\ \A n \in 1..5 : \A j \in 1..Len(body) :
                   body[j] = ClassHeadings[n] => j < i
              /\ \E u \in {data.items[1].children[k] : k \in 1..Len(data.items[1].children)} :
                   /\ ChildKind(u) \notin named \cup {<<>>}
                   /\ MatchAt(body, ChildKind(u) \o <<"s\n\n", "### ">>, i + 1)
       /\ \A i \in 1..Len(body) : \A j \in 1..Len(body) :
            (body[i] = "### " /\ body[j] \in {"<ApiMethod", "<ApiProperty"}) => j < i
       /\ CountChunk(body, "<ApiMethod") = CountKinds({TConstructor, TMethod})
       /\ CountChunk(body, "<ApiProperty") = CountKinds({TField, TProperty, TEvent})
       /\ CountChunk(body, "### ") =
            Cardinality({k \in 1..Len(data.items[1].children) :
                           ChildKind(data.items[1].children[k]) \notin named \cup {<<>>}})

\* children [operator, method, constructor] have been rendered as
\* Constructors, Methods, then the operator's generic section
C12_Witness ==
  /\ pc = "rendered"
  /\ data.items[1].type = TClass
  /\ data.items[1].children = <<UidOp, UidBar, UidCtor>>
  /\ LET body == BodyOf(page)
     IN /\ HasChunk(body, "## Constructors\n\n")
        /\ IndexOf(body, "## Constructors\n\n") < IndexOf(body, "## Methods\n\n")
        /\ IndexOf(body, "## Methods\n\n") < IndexOf(body, "## ")

\* the position in a Struct page of the heading of the section of a kind,
\* 0 when the page has no such section
StructHeadingAt(body, kind) ==
  IF \E i \in 1..Len(body) : body[i] = "## " /\ MatchAt(body, kind \o <<"s\n\n">>, i + 1)
  THEN CHOOSE i \in 1..Len(body) :
         body[i] = "## " /\ MatchAt(body, kind \o <<"s\n\n">>, i + 1)
  ELSE 0

\* C13: a Struct page has its member sections in the order Constructors,
\* Fields, Properties, Methods, Events whatever the order of children, with
\* constructors and methods rendered as ApiMethod tags and fields and
\* properties as ApiProperty tags.
C13_StructLikeClass ==
  (pc = "rendered" /\ data.items[1].type = TStruct) =>
    LET body == BodyOf(page)
    IN /\ \A n, m \in 1..5 :
            (n < m /\ StructHeadingAt(body, ClassKinds[n]) > 0
                   /\ StructHeadingAt(body, ClassKinds[m]) > 0)
              => StructHeadingAt(body, ClassKinds[n]) < StructHeadingAt(body, ClassKinds[m])
       /\ CountChunk(body, "<ApiMethod") = CountKinds({TConstructor, TMethod})
       /\ CountChunk(body, "<ApiProperty") >= CountKinds({TField, TProperty})

\* the type the property renderer is said to show
C14_ResolvedType ==
  LET item == data.items[1]
  IN IF item.syntax.present /\ item.syntax.return.present
        /\ item.syntax.return.type # <<>>
     THEN item.syntax.return.type
     ELSE IF item.type # <<>> THEN item.type
     ELSE Object

\* C14: the property renderer writes one self-closing ApiProperty tag with
\* the sanitized name, the sanitized type (syntax.return.type, else the
\* item's type, else "object") and the sanitized summary, an attribute
\* whose value is empty being left out.
C14_PropertyTypeResolution ==
  pc = "property" =>
    LET item == data.items[1]
        tag(name, type, summary) ==
          <<"<ApiProperty">>
            \o (IF name = <<>> THEN <<>> ELSE <<" ", "name", "=\"">> \o name \o <<"\"">>)
            \o <<" ", "type", "=\"">> \o type \o <<"\"">>
            \o (IF summary = <<>> THEN <<>>
                ELSE <<" ", "description", "=\"">> \o summary \o <<"\"">>)
            \o <<" />\n\n">>
    IN page = tag(sanitizeForJsx(item.name), sanitizeForJsx(C14_ResolvedType),
                  sanitizeForJsx(item.summary))

\* an item with neither syntax nor type has been written with type="object"
C14_Witness ==
  /\ pc = "property"
  /\ ~data.items[1].syntax.present
  /\ data.items[1].type = <<>>
  /\ data.items[1].name = Bar
  /\ data.items[1].summary = <<>>
  /\ page = <<"<ApiProperty", " ", "name", "=\"">> \o Bar
              \o <<"\"", " ", "type", "=\"">> \o Object \o <<"\"", " />\n\n">>

\* "type id" of one parameter; a parameter without a type is written with
\* "object", one without an id with its name, else with "param"
C15_Pair(p) ==
  (IF p.type # <<>> THEN p.type ELSE Object) \o <<" ">>
    \o (IF p.id # <<>> THEN p.id ELSE IF p.name # <<>> THEN p.name ELSE Param)

\* the elements of a list of texts with sep between them
C15_Joined(parts, sep) ==
  Concat([k \in 1..(2 * Len(parts) - 1) |->
            IF k % 2 = 1 THEN parts[(k + 1) \div 2] ELSE sep])

\* C15: the signature is sanitizeForJsx of: the modifiers joined by spaces,
\* the return type, the name, and "(" the "type id" pairs of the parameters
\* in their order joined by ", " ")"; without a syntax field it is
\* sanitizeForJsx of the name.
C15_SignatureConcatenation ==
  pc = "signature" =>
    LET item == data.items[1]
        params == item.syntax.parameters
        mods == IF item.modifiers = <<>> THEN <<>>
                ELSE C15_Joined(item.modifiers, <<" ">>) \o <<" ">>
        ret == IF item.syntax.return.present /\ item.syntax.return.type # <<>>
               THEN item.syntax.return.type \o <<" ">> ELSE <<>>
        pairs == IF params = <<>> THEN <<>>
                 ELSE C15_Joined([k \in 1..Len(params) |-> C15_Pair(params[k])],
                                 <<",", " ">>)
    IN page = IF item.syntax.present
              THEN sanitizeForJsx(mods \o ret \o item.name \o <<"(">> \o pairs \o <<")">>)
              ELSE sanitizeForJsx(item.name)

\* C16: the method renderer writes an ApiReturns entry exactly when
\* syntax.return has a type other than "void" or has a description; the
\* entry is written once and its first attribute is the type, the sanitized
\* return type or "void" when the return entry has none.
C16_ReturnsBlockCondition ==
  pc = "method" =>
    LET item == data.items[1]
        ret == item.syntax.return
        void == <<"v", "o", "i", "d">>
        expected ==
          /\ item.syntax.present
          /\ ret.present
          /\ \/ ret.type # <<>> /\ ret.type # void
             \/ ret.description # <<>>
    IN /\ CountChunk(page, "  <ApiReturns") = (IF expected THEN 1 ELSE 0)
       /\ \A i \in 1..Len(page) :
            page[i] = "  <ApiReturns" =>
              MatchAt(page,
                      <<" ", "type", "=\"">>
                        \o sanitizeForJsx(IF ret.type # <<>> THEN ret.type ELSE void)
                        \o <<"\"">>,
                      i + 1)

\* a method whose return entry has a description and no type has an
\* ApiReturns entry with type="void"
C16_Witness ==
  /\ pc = "method"
  /\ data.items[1].syntax.present
  /\ data.items[1].syntax.return.present
  /\ data.items[1].syntax.return.type = <<>>
  /\ data.items[1].syntax.return.description # <<>>
  /\ Contains(page, <<"  <ApiReturns", " ", "type", "=\"", "v", "o", "i", "d", "\"">>)

\* the attributes the renderers write
AttrNames == {"name", "namespace", "signature", "description", "type"}

\* what follows the closing quote of an attribute value: the end of the
\* tag, or the next attribute
AfterValue(p, j) ==
  \/ j + 1 <= Len(p) /\ p[j + 1] \in {">\n\n", " />\n\n", " />\n"}
  \/ /\ j + 3 <= Len(p)
     /\ p[j + 1] = " "
     /\ p[j + 2] \in AttrNames
     /\ p[j + 3] = "=\""

\* C17: every attribute value of the page, the text from the opening quote
\* of a name, namespace, signature, description or type attribute to the
\* next double quote, has no backslash and no brace and ends where the
\* attribute ends: that double quote is followed by the next attribute or
\* by the end of the tag, so it is the closing quote and the value holds no
\* double quote of its own.
C17_NoRawQuoteInAttributes ==
  pc = "rendered" =>
    \A i \in 1..Len(page) :
      page[i] = "=\"" =>
        /\ i > 2
        /\ page[i - 1] \in AttrNames
        /\ \E j \in (i + 1)..Len(page) :
             /\ page[j] = "\""
             /\ \A k \in (i + 1)..(j - 1) : page[k] \notin {"\"", "\\", "{", "}"}
             /\ AfterValue(page, j)

\* a Class page whose texts are a"\ has name="a&quot;" and no other form
\* of it in the opening tag
C17_Witness ==
  /\ pc = "rendered"
  /\ data.items[1].type = TClass
  /\ data.items[1].name = <<"a", "\"", "\\">>
  /\ MatchAt(BodyOf(page),
             <<"<ApiClass", " ", "name", "=\"", "a">> \o QuotEntity
               \o <<"\"", " ", "namespace", "=\"", "a">> \o QuotEntity \o <<"\"">>,
             1)

\* C18: the page of a Class with uid T, name Foo, namespace NS and the one
\* child T.Bar, a Method named Bar in references, starts with the
\* frontmatter id "t" and title "Foo"; its body starts with the ApiClass tag
\* with name="Foo" namespace="NS", then has the "## Methods" heading, after
\* it an ApiMethod tag with name="Bar", and ends with the closing ApiClass
\* tag.
C18_ClassWithMethodScenario ==
  (/\ pc = "rendered"
   /\ data.items[1].type = TClass
   /\ data.items[1].uid = UidT
   /\ data.items[1].name = Foo
   /\ data.items[1].namespace = NS
   /\ data.items[1].children = <<UidBar>>) =>
    LET body == BodyOf(page)
    IN /\ MatchAt(page,
                  <<"---\n", "id: \"", "t", "\"\n", "title: \"">> \o Foo \o <<"\"\n">>,
                  1)
       /\ MatchAt(body,
                  <<"<ApiClass", " ", "name", "=\"">> \o Foo
                    \o <<"\"", " ", "namespace", "=\"">> \o NS \o <<"\"">>,
                  1)
       /\ \E h, m \in 2..(Len(body) - 1) :
            /\ body[h] = "## Methods\n\n"
            /\ h < m
            /\ MatchAt(body, <<"<ApiMethod", " ", "name", "=\"">> \o Bar \o <<"\"">>, m)
       /\ body[Len(body)] = "\n</ApiClass>"
       /\ CountChunk(body, "<ApiClass") = 1
       /\ CountChunk(body, "\n</ApiClass>") = 1

\* the scenario's page, for the class without summary and other items
C18_Witness ==
  /\ pc = "rendered"
  /\ data.items = <<[Item(UidT, Foo, TClass) EXCEPT !.namespace = NS,
                                                    !.children = <<UidBar>>]>>
  /\ BodyOf(page) =
       <<"<ApiClass", " ", "name", "=\"">> \o Foo
         \o <<"\"", " ", "namespace", "=\"">> \o NS
         \o <<"\"", ">\n\n", "## Methods\n\n", "<ApiMethod", " ", "name", "=\"">> \o Bar
         \o <<"\"", " ", "signature", "=\"">> \o Bar
         \o <<"\"", ">\n\n", "</ApiMethod>\n\n", "\n</ApiClass>">>

\* C19: an Enum page lists, under its Values heading, one ApiProperty entry
\* with type="enum value" for each child that is a Field, in the order of
\* children, and nothing for a child of another kind or an unresolved one.
C19_EnumListsFields ==
  (pc = "rendered" /\ data.items[1].type = TEnum) =>
    LET kids == data.items[1].children
        fields == SelectSeq(kids, LAMBDA u : ChildKind(u) = TField)
        entry(u) ==
          <<"<ApiProperty", " ", "name", "=\"">> \o EntryOf(data.references, u).name
            \o <<"\"", " ", "type", "=\"">> \o <<"e", "n", "u", "m", " ", "v", "a", "l", "u", "e">>
            \o <<"\"", " />\n\n">>
        body == BodyOf(page)
        first == IndexOf(body, "**Type:** Enum\n\n")
    IN /\ first > 0
       /\ body[Len(body)] = "\n</ApiClass>"
       /\ SubSeq(body, first + 1, Len(body) - 1) =
            (IF kids = <<>> THEN <<>>
             ELSE <<"## Values\n\n">>
                    \o Concat([k \in 1..Len(fields) |-> entry(fields[k])]))

\* children [g, method, f]: the values are g then f, the method is left out
C19_Witness ==
  /\ pc = "rendered"
  /\ data.items[1].type = TEnum
  /\ data.items[1].children = <<UidFld2, UidBar, UidFld>>
  /\ CountChunk(BodyOf(page), "<ApiProperty") = 2
  /\ Contains(BodyOf(page), <<"=\"", "g", "\"">>)
  /\ ~HasChunk(BodyOf(page), "<ApiMethod")

\* C20: a Namespace page ends with the list of the items after the first,
\* one "- **name** (kind) - summary" entry for each of them, in items order.
C20_NamespaceListsEveryItem ==
  (pc = "rendered" /\ data.items[1].type = TNamespace /\ Len(data.items) > 1) =>
    LET body == BodyOf(page)
        others == Tail(data.items)
        entry(item) ==
          <<"- **">> \o sanitizeForMdx(item.name)
            \o <<"** (">> \o sanitizeForMdx(item.type)
            \o <<") - ">> \o sanitizeForMdx(item.summary) \o <<"\n">>
        list == <<"## Classes and Types\n\n">>
                  \o Concat([k \in 1..Len(others) |-> entry(others[k])])
    IN /\ CountChunk(body, "- **") = Len(others)
       /\ Len(body) >= Len(list)
       /\ SubSeq(body, Len(body) - Len(list) + 1, Len(body)) = list

(***************************************************************************)
(* processYamlFile names its target from the name of its source            *)
(***************************************************************************)
NameAlphabet == {"a", ".", "y", "m", "l"}

\* processDocFxFiles, lines 21-23: the names readdirSync lists that end in
\* .yml
YamlNames == {stem \o DotYml : stem \in StringsUpTo(NameAlphabet, MaxStemLen)}

\* a document whose primary item has neither uid nor name
NamelessDocument ==
  [references |-> <<>>, items |-> <<Item(<<>>, <<>>, TNamespace)>>]

InitName ==
  /\ pc = "name"
  /\ yamlFile \in YamlNames
  /\ data = NamelessDocument
  /\ filename = <<>>
  /\ page = <<>>
  /\ children = <<>>
  /\ groups = <<>>
  /\ uids = <<>>
  /\ ids = <<>>
  /\ SanIdle
  /\ BatchIdle

\* processYamlFile, lines 45-67: the target name and the page written to it
ProcessYamlFile ==
  /\ pc = "name"
  /\ filename' = ReplaceFirst(yamlFile, DotYml, DotMd)
  /\ page' = convertYamlToMdx(data, filename')
  /\ pc' = "written"
  /\ UNCHANGED <<yamlFile, uids, ids>>
  /\ UNCHANGED sanVars
  /\ UNCHANGED groupVars
  /\ UNCHANGED batchVars

NextName == ProcessYamlFile

SpecName == InitName /\ [][NextName]_vars

\* C21: the name of the output file is the name of the source file with
\* only its trailing .yml changed to .md
C21_TargetName ==
  pc = "written" =>
    filename = SubSeq(yamlFile, 1, Len(yamlFile) - Len(DotYml)) \o DotMd

\* the lines that open, key and close a frontmatter block, in order
FrontLines ==
  <<"---\n", "id: \"", "title: \"", "sidebar_label: \"",
    "hide_table_of_contents: false\n", "---\n\n">>

IsFrontLine(c) == \E k \in 1..Len(FrontLines) : FrontLines[k] = c

\* C22: every page begins with a frontmatter block that holds exactly the
\* keys id, title, sidebar_label and hide_table_of_contents: false, in that
\* order, each value on its own line, closed by --- and a blank line, and
\* followed by the rendered body
C22_FrontmatterFirst ==
  pc = "rendered" =>
    /\ \E i \in 1..Len(page) : page[i] = "---\n\n"
    /\ LET close == Least({i \in 1..Len(page) : page[i] = "---\n\n"})
           block == SubSeq(page, 1, close)
       IN /\ page[1] = "---\n"
          /\ SelectSeq(block, IsFrontLine) = FrontLines
          /\ page[close - 1] = "hide_table_of_contents: false\n"
          /\ Cardinality({i \in 1..close : page[i] = "\"\n"}) = 3
          /\ \A i \in 2..close :
               /\ page[i] \notin {"\n", "\r"}
               /\ page[i] = "\"\n"
                    => /\ i < close
                       /\ page[i + 1] \in {"title: \"", "sidebar_label: \"",
                                           "hide_table_of_contents: false\n"}
          /\ SubSeq(page, close + 1, Len(page))
               = <<ImportLine>> \o PageBody(data.items[1], data)

C22_Witness ==
  /\ pc = "rendered"
  /\ data.items[1].uid = UidT
  /\ data.items[1].name = Foo
  /\ SubSeq(page, 1, 9)
       = <<"---\n", "id: \"", "t", "\"\n", "title: \"", "F", "o", "o", "\"\n">>

\* C23: a batch shell converter skips a source file whose content is
\* shorter than 10 characters: the step over it writes no target file and
\* leaves the loop running for the files after it
C23_SmallFileSkipped ==
  [][(/\ pc = "loop"
      /\ prog \in ShellProgs
      /\ alive
      /\ idx' = idx + 1
      /\ files[idx].readable
      /\ files[idx].length < MinContentLength)
       => (written' = written /\ alive')]_vars

\* C24: a run of a batch shell converter that writes index.md and
\* .gitignore after its loop, on a source directory that exists, ends with
\* both files in the target directory, whatever the loop processed
C24_IndexAndGitignoreAlways ==
  (pc = "done" /\ prog \in {"enhanced", "final"} /\ srcDir = "ok")
    => statics = {"index.md", ".gitignore"}

\* C25: in the converters that run under set -e and count with
\* ((processed_count++)) in the piped loop, every readable source file of at
\* least 10 characters has its target file written when the run ends
C25_EveryEligibleFileWritten ==
  (pc = "done" /\ prog \in {"enhanced", "final"} /\ srcDir = "ok")
    => \A i \in 1..Len(files) :
         (files[i].readable /\ files[i].length >= MinContentLength)
           => [file |-> i, content |-> "page"] \in written

\* C26: processYamlFile deletes the source YAML only after the output file
\* is written: a removed source has its page in the target directory, and a
\* file without items, or one that fails before or during the write, keeps
\* its source
C26_RemovedOnlyAfterWrite ==
  prog = "node" =>
    \A i \in 1..Len(files) :
      /\ i \in removed => [file |-> i, content |-> "page"] \in written
      /\ files[i] \in {"noitems", "malformed", "unrenderable", "unwritable"}
           => i \notin removed

C26_Witness ==
  /\ prog = "node"
  /\ pc = "done"
  /\ files = <<"good", "noitems", "unwritable">>
  /\ removed = {1}
  /\ written = {[file |-> 1, content |-> "page"]}

\* C27: the Node converter counts every .yml file exactly once: the sum of
\* processedCount and skippedCount is the number of files handled so far,
\* and the number of files found when the run ends; no step decreases a
\* counter, and the step over a file adds one to exactly one of them
C27_CountedOnce ==
  /\ [](prog = "node" =>
          /\ processedCount + skippedCount = idx - 1
          /\ pc = "done" /\ srcDir = "ok"
               => processedCount + skippedCount = Len(files))
  /\ [][prog = "node" =>
          /\ processedCount' >= processedCount
          /\ skippedCount' >= skippedCount
          /\ idx' = idx + 1
               => (processedCount' + skippedCount')
                    = (processedCount + skippedCount) + 1]_vars

C27_Witness ==
  /\ prog = "node"
  /\ pc = "done"
  /\ files = <<"toc", "malformed", "good">>
  /\ processedCount = 1
  /\ skippedCount = 2

\* C28: the processed count the Node converter reports at the end of the
\* run is the number of output files it wrote, and the documents without
\* items are among the skipped files
C28_ProcessedMeansWritten ==
  (prog = "node" /\ pc = "done" /\ srcDir = "ok") =>
    /\ processedCount = Cardinality(written)
    /\ skippedCount >= Cardinality({i \in 1..Len(files) : files[i] = "noitems"})

(***************************************************************************)
(* sanitizeId applied to the uids of the primary items of two documents    *)
(***************************************************************************)
IdAlphabet == {"a", "A", "<", ">", "*"}

\* item.uid of the primary item: a text, <<>> when the item has none
IdTexts == StringsUpTo(IdAlphabet, MaxIdLen)

InitId ==
  /\ pc = "ids"
  /\ uids \in [1..2 -> IdTexts]
  /\ ids = <<>>
  /\ yamlFile = <<>>
  /\ SanIdle
  /\ GroupIdle
  /\ RenderIdle
  /\ BatchIdle

\* convertYamlToMdx, lines 77-79 and 85, for each document: the id written
\* to the frontmatter
SanitizeIds ==
  /\ pc = "ids"
  /\ ids' = [k \in 1..Len(uids) |-> sanitizeId(uids[k])]
  /\ pc' = "named"
  /\ UNCHANGED <<uids, yamlFile>>
  /\ UNCHANGED sanVars
  /\ UNCHANGED groupVars
  /\ UNCHANGED renderVars
  /\ UNCHANGED batchVars

NextId == SanitizeIds

SpecId == InitId /\ [][NextId]_vars

\* C29: sanitizeId returns for every input an id that is not empty, is made
\* of lowercase letters, digits, '.', '_' and '-' only, has no dash at
\* either end and no two dashes in a row
C29_IdWellFormed ==
  pc = "named" =>
    \A k \in 1..Len(ids) :
      LET id == ids[k]
      IN /\ id # <<>>
         /\ \A i \in 1..Len(id) : id[i] \in IdChars /\ ToLowerChar(id[i]) = id[i]
         /\ id[1] # "-"
         /\ id[Len(id)] # "-"
         /\ \A i \in 1..(Len(id) - 1) : ~(id[i] = "-" /\ id[i + 1] = "-")

\* C30: documents whose primary items have distinct uids get distinct
\* frontmatter ids
C30_IdsUnique ==
  (pc = "named" /\ uids[1] # <<>> /\ uids[2] # <<>> /\ uids[1] # uids[2])
    => ids[1] # ids[2]

====
